---- MODULE Spec2Model ----
(***************************************************************************)
(* The two asset ledgers of substrate-tutorials:                           *)
(*   pallets/assets  (owner-gated mint:  create, set_metadata, mint, burn, *)
(*                    transfer)                                            *)
(*   pallets/nfts    (self-issued supply: mint, burn, transfer)            *)
(*                                                                         *)
(* Every dispatchable is one atomic step.  The state is the pallets'       *)
(* storage items plus a record of the last call: its dispatchable, the     *)
(* DispatchResult it returned and the event it deposited.                  *)
(*                                                                         *)
(* The two pallets are separate crates with separate storage; no call of   *)
(* one reads or writes an item of the other.  A behaviour therefore runs   *)
(* the calls of one pallet (`pallet`, fixed by Init), the storage of the   *)
(* other staying as constructed.                                           *)
(*                                                                         *)
(* u128 and the id types are scaled down to 0..MaxU128 and 0..MaxAssetId;  *)
(* saturating operations clamp at these, plain `+`, `-`, `+=`, `-=` leave  *)
(* the range the way the build decides: with overflow checks the call      *)
(* panics and nothing of it is kept, without them the value wraps modulo   *)
(* MaxU128 + 1.  Either outcome is a step of the model.                    *)
(***************************************************************************)
EXTENDS Integers, FiniteSets, Sequences, TLC

\* Bounds of the model.
MaxU128 == 2
MaxAssetId == 1

AccountId == {"A", "B"}
AssetId == 0..MaxAssetId
U128 == 0..MaxU128
Names == {"n1"}
Symbols == {"s1"}

VARIABLES
    pallet,           \* which pallet's calls this behaviour runs
    Asset,            \* assets: AssetId -> Option<AssetDetails>
    Account,          \* assets: AssetId -> AccountId -> u128 (ValueQuery)
    Metadata,         \* assets: AssetId -> Option<AssetMetadata>
    Nonce,            \* assets: id of the next created asset
    UniqueAsset,      \* nfts: UniqueAssetId -> Option<UniqueAssetDetails>
    UniqueAccount,    \* nfts: UniqueAssetId -> AccountId -> u128 (ValueQuery)
    UniqueNonce,      \* nfts: id of the next created asset
    call,             \* the dispatchable last called
    result,           \* what the last call returned
    event             \* the event the last call deposited

assets_storage == <<Asset, Account, Metadata, Nonce>>
nfts_storage == <<UniqueAsset, UniqueAccount, UniqueNonce>>
vars == <<pallet, Asset, Account, Metadata, Nonce,
          UniqueAsset, UniqueAccount, UniqueNonce, call, result, event>>

\* Option<T>
None == [is_some |-> FALSE]
Some(x) == [is_some |-> TRUE, val |-> x]

\* ---- integer arithmetic of the scaled-down types ----
saturating_add(a, b) == IF a + b > MaxU128 THEN MaxU128 ELSE a + b
saturating_sub(a, b) == IF a < b THEN 0 ELSE a - b
id_saturating_add(a, b) == IF a + b > MaxAssetId THEN MaxAssetId ELSE a + b
\* plain + and - of a build without overflow checks
wrapping(x) == x % (MaxU128 + 1)
id_wrapping(x) == x % (MaxAssetId + 1)
in_range(x) == x >= 0 /\ x <= MaxU128
id_in_range(x) == x >= 0 /\ x <= MaxAssetId

\* ---- types.rs ----
AssetDetailsNew(owner) == [owner |-> owner, supply |-> 0]
AssetMetadataNew(name, symbol) == [name |-> name, symbol |-> symbol]
UniqueAssetDetailsNew(creator, metadata, supply) ==
    [owner |-> creator, metadata |-> metadata, supply |-> supply]

\* ---- events ----
NoEvent == [kind |-> "None"]
Created(owner, asset_id) == [kind |-> "Created", owner |-> owner, asset_id |-> asset_id]
UniqueCreated(creator, asset_id) ==
    [kind |-> "Created", creator |-> creator, asset_id |-> asset_id]
MetadataSet(asset_id, name, symbol) ==
    [kind |-> "MetadataSet", asset_id |-> asset_id, name |-> name, symbol |-> symbol]
Minted(asset_id, owner, total_supply) ==
    [kind |-> "Minted", asset_id |-> asset_id, owner |-> owner, total_supply |-> total_supply]
Burned(asset_id, owner, total_supply) ==
    [kind |-> "Burned", asset_id |-> asset_id, owner |-> owner, total_supply |-> total_supply]
Transferred(asset_id, from, to, amount) ==
    [kind |-> "Transferred", asset_id |-> asset_id, from |-> from, to |-> to, amount |-> amount]

\* ---- the name of the dispatchable last called ----
NoCall == "none"

Init ==
    /\ pallet \in {"assets", "nfts"}
    /\ Asset = [i \in AssetId |-> None]
    /\ Account = [i \in AssetId |-> [a \in AccountId |-> 0]]
    /\ Metadata = [i \in AssetId |-> None]
    /\ Nonce = 0
    /\ UniqueAsset = [i \in AssetId |-> None]
    /\ UniqueAccount = [i \in AssetId |-> [a \in AccountId |-> 0]]
    /\ UniqueNonce = 0
    /\ call = NoCall
    /\ result = "Ok"
    /\ event = NoEvent

\* A call that returns Err(e) before writing anything, or that panics: no storage
\* item is written, no event is deposited.
Fail(e) ==
    /\ result' = e
    /\ event' = NoEvent
    /\ UNCHANGED <<assets_storage, nfts_storage>>

\* ======================= pallets/assets =======================

\* ensure_is_owner: "Ok", or the error it returns
ensure_is_owner(asset_id, account) ==
    IF ~Asset[asset_id].is_some THEN "Unknown"
    ELSE IF Asset[asset_id].val.owner # account THEN "NoPermission"
    ELSE "Ok"

create(origin) ==
    /\ pallet = "assets"
    /\ call' = "create"
    /\ LET id == Nonce
           details == AssetDetailsNew(origin)
       IN /\ Asset' = [Asset EXCEPT ![id] = Some(details)]
          /\ Nonce' = id_saturating_add(id, 1)
          /\ event' = Created(origin, id)
          /\ result' = "Ok"
    /\ UNCHANGED <<Account, Metadata, nfts_storage, pallet>>

\* set_metadata checking only that the asset exists, not who calls
set_metadata_any_caller(origin, asset_id, name, symbol) ==
    /\ pallet = "assets"
    /\ call' = "set_metadata"
    /\ UNCHANGED pallet
    /\ IF ~Asset[asset_id].is_some THEN Fail("Unknown")
       ELSE /\ Metadata' = [Metadata EXCEPT
                               ![asset_id] = Some(AssetMetadataNew(name, symbol))]
            /\ event' = MetadataSet(asset_id, name, symbol)
            /\ result' = "Ok"
            /\ UNCHANGED <<Asset, Account, Nonce, nfts_storage>>

\* set_metadata removing the entry it finds instead of replacing it
set_metadata_removes_existing(origin, asset_id, name, symbol) ==
    /\ pallet = "assets"
    /\ call' = "set_metadata"
    /\ UNCHANGED pallet
    /\ LET checked == ensure_is_owner(asset_id, origin)
       IN IF checked # "Ok" THEN Fail(checked)
          ELSE /\ Metadata' = [Metadata EXCEPT ![asset_id] =
                                  IF Metadata[asset_id].is_some THEN None
                                  ELSE Some(AssetMetadataNew(name, symbol))]
               /\ event' = MetadataSet(asset_id, name, symbol)
               /\ result' = "Ok"
               /\ UNCHANGED <<Asset, Account, Nonce, nfts_storage>>

set_metadata(origin, asset_id, name, symbol) ==
    /\ pallet = "assets"
    /\ call' = "set_metadata"
    /\ UNCHANGED pallet
    /\ LET checked == ensure_is_owner(asset_id, origin)
       IN IF checked # "Ok" THEN Fail(checked)
          ELSE /\ Metadata' = [Metadata EXCEPT ![asset_id] = Some(AssetMetadataNew(name, symbol))]
               /\ event' = MetadataSet(asset_id, name, symbol)
               /\ result' = "Ok"
               /\ UNCHANGED <<Asset, Account, Nonce, nfts_storage>>

\* mint with the owner check moved behind the two writes
mint_checks_owner_last(origin, asset_id, amount, to) ==
    /\ pallet = "assets"
    /\ call' = "mint"
    /\ UNCHANGED pallet
    /\ LET details == Asset[asset_id].val
           total_supply == saturating_add(details.supply, amount)
           minted_amount == total_supply - details.supply
           balance == Account[asset_id][to] + minted_amount
       IN IF ~Asset[asset_id].is_some THEN Fail("Unknown")
          ELSE /\ Asset' = [Asset EXCEPT ![asset_id] = Some([details EXCEPT !.supply = total_supply])]
               /\ Account' = [Account EXCEPT ![asset_id][to] = wrapping(balance)]
               /\ UNCHANGED <<Metadata, Nonce, nfts_storage>>
               /\ IF details.owner # origin
                  THEN result' = "NoPermission" /\ event' = NoEvent
                  ELSE result' = "Ok" /\ event' = Minted(asset_id, to, total_supply)

mint(origin, asset_id, amount, to) ==
    /\ pallet = "assets"
    /\ call' = "mint"
    /\ UNCHANGED pallet
    /\ LET checked == ensure_is_owner(asset_id, origin)
           details == Asset[asset_id].val
           old_supply == details.supply
           total_supply == saturating_add(details.supply, amount)
           minted_amount == total_supply - old_supply
           balance == Account[asset_id][to] + minted_amount      \* *balance += minted_amount
       IN IF checked # "Ok" THEN Fail(checked)
          ELSE \/ ~in_range(balance) /\ Fail("Panic")
               \/ /\ Asset' = [Asset EXCEPT ![asset_id] = Some([details EXCEPT !.supply = total_supply])]
                    /\ Account' = [Account EXCEPT ![asset_id][to] = wrapping(balance)]
                    /\ event' = Minted(asset_id, to, total_supply)
                    /\ result' = "Ok"
                    /\ UNCHANGED <<Metadata, Nonce, nfts_storage>>

burn(origin, asset_id, amount) ==
    /\ pallet = "assets"
    /\ call' = "burn"
    /\ UNCHANGED pallet
    /\ LET details == Asset[asset_id].val
           old_balance == Account[asset_id][origin]
           balance == saturating_sub(old_balance, amount)
           burned_amount == old_balance - balance
           supply == details.supply - burned_amount              \* details.supply -= burned_amount
       IN IF ~Asset[asset_id].is_some THEN Fail("Unknown")
          ELSE \/ ~in_range(supply) /\ Fail("Panic")
               \/ /\ Account' = [Account EXCEPT ![asset_id][origin] = balance]
                    /\ Asset' = [Asset EXCEPT ![asset_id] = Some([details EXCEPT !.supply = wrapping(supply)])]
                    /\ event' = Burned(asset_id, origin, wrapping(supply))
                    /\ result' = "Ok"
                    /\ UNCHANGED <<Metadata, Nonce, nfts_storage>>

\* transfer crediting the requested amount, not the amount taken from the sender
transfer_credits_requested(origin, asset_id, amount, to) ==
    /\ pallet = "assets"
    /\ call' = "transfer"
    /\ UNCHANGED pallet
    /\ LET to_balance == Account[asset_id][to]
           old_balance == Account[asset_id][origin]
           from_balance == saturating_sub(old_balance, amount)
           inner == [Account EXCEPT ![asset_id][origin] = from_balance]
           new_to_balance == saturating_add(to_balance, amount)
           transferred_to_dest == new_to_balance - to_balance
       IN IF ~Asset[asset_id].is_some THEN Fail("Unknown")
          ELSE /\ Account' = [inner EXCEPT ![asset_id][to] = new_to_balance]
               /\ event' = Transferred(asset_id, origin, to, transferred_to_dest)
               /\ result' = "Ok"
               /\ UNCHANGED <<Asset, Metadata, Nonce, nfts_storage>>

\* The outer try_mutate reads `to`'s balance, the inner one reads, changes and
\* writes `who`'s, then the outer one writes `to`'s from the value it read.
transfer(origin, asset_id, amount, to) ==
    /\ pallet = "assets"
    /\ call' = "transfer"
    /\ UNCHANGED pallet
    /\ LET to_balance == Account[asset_id][to]
           old_balance == Account[asset_id][origin]
           from_balance == saturating_sub(old_balance, amount)
           transferred_from_source == old_balance - from_balance
           inner == [Account EXCEPT ![asset_id][origin] = from_balance]
           new_to_balance == saturating_add(to_balance, transferred_from_source)
           transferred_to_dest == new_to_balance - to_balance
       IN IF ~Asset[asset_id].is_some THEN Fail("Unknown")
          ELSE /\ Account' = [inner EXCEPT ![asset_id][to] = new_to_balance]
               /\ event' = Transferred(asset_id, origin, to, transferred_to_dest)
               /\ result' = "Ok"
               /\ UNCHANGED <<Asset, Metadata, Nonce, nfts_storage>>

\* ======================= pallets/nfts =======================

unique_mint(origin, metadata, supply) ==
    /\ pallet = "nfts"
    /\ call' = "unique_mint"
    /\ UNCHANGED pallet
    /\ LET u_asset_details == UniqueAssetDetailsNew(origin, metadata, supply)
           nonce == UniqueNonce
           balance == saturating_add(UniqueAccount[nonce][origin], supply)
           num == nonce + 1                                      \* *num = *num + 1
       IN IF ~(supply > 0) THEN Fail("NoSupply")
          ELSE \/ ~id_in_range(num) /\ Fail("Panic")
               \/ /\ UniqueAsset' = [UniqueAsset EXCEPT ![nonce] = Some(u_asset_details)]
                    /\ UniqueAccount' = [UniqueAccount EXCEPT ![nonce][origin] = balance]
                    /\ UniqueNonce' = id_wrapping(num)
                    /\ event' = UniqueCreated(origin, nonce)
                    /\ result' = "Ok"
                    /\ UNCHANGED assets_storage

unique_burn(origin, asset_id, amount) ==
    /\ pallet = "nfts"
    /\ call' = "burn"
    /\ UNCHANGED pallet
    /\ LET details == UniqueAsset[asset_id].val
           old_balance == UniqueAccount[asset_id][origin]
           balance == saturating_sub(old_balance, amount)
           user_burned == old_balance - balance
           total_supply == saturating_sub(details.supply, user_burned)
       IN IF ~UniqueAsset[asset_id].is_some THEN Fail("Unknown")
          ELSE IF ~(UniqueAccount[asset_id][origin] > 0) THEN Fail("NotOwned")
          ELSE /\ UniqueAccount' = [UniqueAccount EXCEPT ![asset_id][origin] = balance]
               /\ UniqueAsset' = [UniqueAsset EXCEPT ![asset_id] =
                                     Some([details EXCEPT !.supply = total_supply])]
               /\ event' = Burned(asset_id, origin, total_supply)
               /\ result' = "Ok"
               /\ UNCHANGED <<UniqueNonce, assets_storage>>

\* transfer crediting `to` under the first asset id, not the one transferred
unique_transfer_credits_first_id(origin, asset_id, amount, to) ==
    /\ pallet = "nfts"
    /\ call' = "transfer"
    /\ UNCHANGED pallet
    /\ LET old_balance == UniqueAccount[asset_id][origin]
           balance == saturating_sub(old_balance, amount)
           transferred_from_source == old_balance - balance
           debited == [UniqueAccount EXCEPT ![asset_id][origin] = balance]
           to_balance == debited[0][to] + transferred_from_source
       IN IF ~UniqueAsset[asset_id].is_some THEN Fail("Unknown")
          ELSE IF ~(UniqueAccount[asset_id][origin] > 0) THEN Fail("NotOwned")
          ELSE \/ ~in_range(to_balance) /\ Fail("Panic")
               \/ /\ UniqueAccount' = [debited EXCEPT ![0][to] = wrapping(to_balance)]
                    /\ event' = Transferred(asset_id, origin, to, amount)
                    /\ result' = "Ok"
                    /\ UNCHANGED <<UniqueAsset, UniqueNonce, assets_storage>>

\* transfer crediting the balance `to` had before the debit (the nesting of the
\* assets pallet)
unique_transfer_stale_credit(origin, asset_id, amount, to) ==
    /\ pallet = "nfts"
    /\ call' = "transfer"
    /\ UNCHANGED pallet
    /\ LET old_balance == UniqueAccount[asset_id][origin]
           balance == saturating_sub(old_balance, amount)
           transferred_from_source == old_balance - balance
           debited == [UniqueAccount EXCEPT ![asset_id][origin] = balance]
           to_balance == UniqueAccount[asset_id][to] + transferred_from_source
       IN IF ~UniqueAsset[asset_id].is_some THEN Fail("Unknown")
          ELSE IF ~(UniqueAccount[asset_id][origin] > 0) THEN Fail("NotOwned")
          ELSE \/ ~in_range(to_balance) /\ Fail("Panic")
               \/ /\ UniqueAccount' = [debited EXCEPT ![asset_id][to] = wrapping(to_balance)]
                    /\ event' = Transferred(asset_id, origin, to, amount)
                    /\ result' = "Ok"
                    /\ UNCHANGED <<UniqueAsset, UniqueNonce, assets_storage>>

unique_transfer(origin, asset_id, amount, to) ==
    /\ pallet = "nfts"
    /\ call' = "transfer"
    /\ UNCHANGED pallet
    /\ LET old_balance == UniqueAccount[asset_id][origin]
           balance == saturating_sub(old_balance, amount)
           transferred_from_source == old_balance - balance
           debited == [UniqueAccount EXCEPT ![asset_id][origin] = balance]
           to_balance == debited[asset_id][to] + transferred_from_source  \* (*balance) + ...
       IN IF ~UniqueAsset[asset_id].is_some THEN Fail("Unknown")
          ELSE IF ~(UniqueAccount[asset_id][origin] > 0) THEN Fail("NotOwned")
          ELSE \/ ~in_range(to_balance) /\ Fail("Panic")
               \/ /\ UniqueAccount' = [debited EXCEPT ![asset_id][to] = wrapping(to_balance)]
                    /\ event' = Transferred(asset_id, origin, to, amount)
                    /\ result' = "Ok"
                    /\ UNCHANGED <<UniqueAsset, UniqueNonce, assets_storage>>

\* ============ the dispatchables as functions of the ledger ============
\* What each dispatchable that names an asset id leaves of a ledger `st`, in a
\* build with (checks) or without overflow checks.  A failed or panicked call
\* leaves `st`.

AssetsLedger == [Asset |-> Asset, Account |-> Account, Metadata |-> Metadata, Nonce |-> Nonce]
NftsLedger == [Asset |-> UniqueAsset, Account |-> UniqueAccount, Nonce |-> UniqueNonce]

after_set_metadata(st, origin, asset_id, name, symbol) ==
    IF ~st.Asset[asset_id].is_some \/ st.Asset[asset_id].val.owner # origin THEN st
    ELSE [st EXCEPT !.Metadata[asset_id] = Some(AssetMetadataNew(name, symbol))]

after_mint(st, checks, origin, asset_id, amount, to) ==
    LET details == st.Asset[asset_id].val
        total_supply == saturating_add(details.supply, amount)
        minted_amount == total_supply - details.supply
        balance == st.Account[asset_id][to] + minted_amount
    IN IF ~st.Asset[asset_id].is_some \/ details.owner # origin THEN st
       ELSE IF checks /\ ~in_range(balance) THEN st
       ELSE [st EXCEPT !.Asset[asset_id] = Some([details EXCEPT !.supply = total_supply]),
                       !.Account[asset_id][to] = wrapping(balance)]

after_burn(st, checks, origin, asset_id, amount) ==
    LET details == st.Asset[asset_id].val
        old_balance == st.Account[asset_id][origin]
        balance == saturating_sub(old_balance, amount)
        burned_amount == old_balance - balance
        supply == details.supply - burned_amount
    IN IF ~st.Asset[asset_id].is_some THEN st
       ELSE IF checks /\ ~in_range(supply) THEN st
       ELSE [st EXCEPT !.Account[asset_id][origin] = balance,
                       !.Asset[asset_id] = Some([details EXCEPT !.supply = wrapping(supply)])]

after_transfer(st, origin, asset_id, amount, to) ==
    LET to_balance == st.Account[asset_id][to]
        old_balance == st.Account[asset_id][origin]
        from_balance == saturating_sub(old_balance, amount)
        transferred_from_source == old_balance - from_balance
        inner == [st.Account EXCEPT ![asset_id][origin] = from_balance]
        new_to_balance == saturating_add(to_balance, transferred_from_source)
    IN IF ~st.Asset[asset_id].is_some THEN st
       ELSE [st EXCEPT !.Account = [inner EXCEPT ![asset_id][to] = new_to_balance]]

after_unique_burn(st, origin, asset_id, amount) ==
    LET details == st.Asset[asset_id].val
        old_balance == st.Account[asset_id][origin]
        balance == saturating_sub(old_balance, amount)
        user_burned == old_balance - balance
        total_supply == saturating_sub(details.supply, user_burned)
    IN IF ~st.Asset[asset_id].is_some \/ ~(old_balance > 0) THEN st
       ELSE [st EXCEPT !.Account[asset_id][origin] = balance,
                       !.Asset[asset_id] = Some([details EXCEPT !.supply = total_supply])]

after_unique_transfer(st, checks, origin, asset_id, amount, to) ==
    LET old_balance == st.Account[asset_id][origin]
        balance == saturating_sub(old_balance, amount)
        transferred_from_source == old_balance - balance
        debited == [st.Account EXCEPT ![asset_id][origin] = balance]
        to_balance == debited[asset_id][to] + transferred_from_source
    IN IF ~st.Asset[asset_id].is_some \/ ~(old_balance > 0) THEN st
       ELSE IF checks /\ ~in_range(to_balance) THEN st
       ELSE [st EXCEPT !.Account = [debited EXCEPT ![asset_id][to] = wrapping(to_balance)]]

\* The calls of a pallet that name asset_id, and what a call leaves of `st`.
CallsOn(p, asset_id) ==
    IF p = "assets"
    THEN [op : {"set_metadata"}, origin : AccountId, asset_id : {asset_id},
          name : Names, symbol : Symbols]
         \cup [op : {"mint", "transfer"}, origin : AccountId, asset_id : {asset_id},
               amount : U128, to : AccountId]
         \cup [op : {"burn"}, origin : AccountId, asset_id : {asset_id}, amount : U128]
    ELSE [op : {"unique_transfer"}, origin : AccountId, asset_id : {asset_id},
          amount : U128, to : AccountId]
         \cup [op : {"unique_burn"}, origin : AccountId, asset_id : {asset_id}, amount : U128]

after(st, checks, c) ==
    CASE c.op = "set_metadata" -> after_set_metadata(st, c.origin, c.asset_id, c.name, c.symbol)
      [] c.op = "mint" -> after_mint(st, checks, c.origin, c.asset_id, c.amount, c.to)
      [] c.op = "burn" -> after_burn(st, checks, c.origin, c.asset_id, c.amount)
      [] c.op = "transfer" -> after_transfer(st, c.origin, c.asset_id, c.amount, c.to)
      [] c.op = "unique_burn" -> after_unique_burn(st, c.origin, c.asset_id, c.amount)
      [] c.op = "unique_transfer" ->
            after_unique_transfer(st, checks, c.origin, c.asset_id, c.amount, c.to)

\* The step of the model that is the call c.
dispatch(c) ==
    CASE c.op = "set_metadata" -> set_metadata(c.origin, c.asset_id, c.name, c.symbol)
      [] c.op = "mint" -> mint(c.origin, c.asset_id, c.amount, c.to)
      [] c.op = "burn" -> burn(c.origin, c.asset_id, c.amount)
      [] c.op = "transfer" -> transfer(c.origin, c.asset_id, c.amount, c.to)
      [] c.op = "unique_burn" -> unique_burn(c.origin, c.asset_id, c.amount)
      [] c.op = "unique_transfer" -> unique_transfer(c.origin, c.asset_id, c.amount, c.to)

Ledger == IF pallet = "assets" THEN AssetsLedger ELSE NftsLedger

\* ======================= the specification =======================

NextAssets ==
    \/ \E origin \in AccountId : create(origin)
    \/ \E origin \in AccountId, asset_id \in AssetId, name \in Names, symbol \in Symbols :
          set_metadata(origin, asset_id, name, symbol)
    \/ \E origin \in AccountId, asset_id \in AssetId, amount \in U128, to \in AccountId :
          mint(origin, asset_id, amount, to)
    \/ \E origin \in AccountId, asset_id \in AssetId, amount \in U128 :
          burn(origin, asset_id, amount)
    \/ \E origin \in AccountId, asset_id \in AssetId, amount \in U128, to \in AccountId :
          transfer(origin, asset_id, amount, to)

NextNfts ==
    \/ \E origin \in AccountId, metadata \in Names, supply \in U128 :
          unique_mint(origin, metadata, supply)
    \/ \E origin \in AccountId, asset_id \in AssetId, amount \in U128 :
          unique_burn(origin, asset_id, amount)
    \/ \E origin \in AccountId, asset_id \in AssetId, amount \in U128, to \in AccountId :
          unique_transfer(origin, asset_id, amount, to)

Next == NextAssets \/ NextNfts

Spec == Init /\ [][Next]_vars

\* The behaviours of one pallet alone.
InitAssets == pallet = "assets" /\ Init
InitNfts == pallet = "nfts" /\ Init
SpecAssets == InitAssets /\ [][NextAssets]_vars
SpecNfts == InitNfts /\ [][NextNfts]_vars

\* The assets pallet with two names and two symbols for set_metadata; the
\* amounts are 0 and the largest one.
MetaNames == {"n1", "n2"}
MetaSymbols == {"s1", "s2"}
EdgeAmounts == {0, MaxU128}

NextMetadata ==
    \/ \E origin \in AccountId : create(origin)
    \/ \E origin \in AccountId, asset_id \in AssetId,
          name \in MetaNames, symbol \in MetaSymbols :
          set_metadata(origin, asset_id, name, symbol)
    \/ \E origin \in AccountId, asset_id \in AssetId, amount \in EdgeAmounts, to \in AccountId :
          mint(origin, asset_id, amount, to)
    \/ \E origin \in AccountId, asset_id \in AssetId, amount \in EdgeAmounts :
          burn(origin, asset_id, amount)
    \/ \E origin \in AccountId, asset_id \in AssetId, amount \in EdgeAmounts, to \in AccountId :
          transfer(origin, asset_id, amount, to)

SpecMetadata == InitAssets /\ [][NextMetadata]_vars

\* Both pallets with the amounts 0 and the largest one.
NextFrame ==
    \/ \E origin \in AccountId : create(origin)
    \/ \E origin \in AccountId, asset_id \in AssetId, name \in Names, symbol \in Symbols :
          set_metadata(origin, asset_id, name, symbol)
    \/ \E origin \in AccountId, asset_id \in AssetId, amount \in EdgeAmounts, to \in AccountId :
          mint(origin, asset_id, amount, to)
    \/ \E origin \in AccountId, asset_id \in AssetId, amount \in EdgeAmounts :
          burn(origin, asset_id, amount)
    \/ \E origin \in AccountId, asset_id \in AssetId, amount \in EdgeAmounts, to \in AccountId :
          transfer(origin, asset_id, amount, to)
    \/ \E origin \in AccountId, metadata \in Names, supply \in EdgeAmounts :
          unique_mint(origin, metadata, supply)
    \/ \E origin \in AccountId, asset_id \in AssetId, amount \in EdgeAmounts :
          unique_burn(origin, asset_id, amount)
    \/ \E origin \in AccountId, asset_id \in AssetId, amount \in EdgeAmounts, to \in AccountId :
          unique_transfer(origin, asset_id, amount, to)

SpecFrame == Init /\ [][NextFrame]_vars

\* The assets pallet's ledger alone: create, mint, burn and transfer with every
\* amount, no set_metadata.
NextLedger ==
    \/ \E origin \in AccountId : create(origin)
    \/ \E origin \in AccountId, asset_id \in AssetId, amount \in U128, to \in AccountId :
          mint(origin, asset_id, amount, to)
    \/ \E origin \in AccountId, asset_id \in AssetId, amount \in U128 :
          burn(origin, asset_id, amount)
    \/ \E origin \in AccountId, asset_id \in AssetId, amount \in U128, to \in AccountId :
          transfer(origin, asset_id, amount, to)

SpecLedger == InitAssets /\ [][NextLedger]_vars

\* ======================= properties =======================

RECURSIVE Sum(_, _)
\* the sum of the balances f[a] over the accounts a of S
Sum(f, S) == IF S = {} THEN 0
             ELSE LET a == CHOOSE x \in S : TRUE IN f[a] + Sum(f, S \ {a})

Min(a, b) == IF a < b THEN a ELSE b
Errors == {"Unknown", "NoPermission", "NotOwned", "NoSupply"}

\* C1: (assets) for every AssetId that has AssetDetails, the stored supply equals
\* the sum of all Account balances recorded for that AssetId.
C1_Conservation ==
    \A i \in AssetId :
        Asset[i].is_some => Asset[i].val.supply = Sum(Account[i], AccountId)

\* C2: (assets) a successful transfer whose receiver is the caller leaves the
\* caller's balance and the asset's supply as they were.
C2_SelfTransferNoEffect ==
    [][\A o \in AccountId, i \in AssetId, a \in U128 :
          (transfer(o, i, a, o) /\ result' = "Ok")
              => (Account'[i][o] = Account[i][o] /\ Asset'[i] = Asset[i])]_vars

\* C3: (both pallets) a call that returns an error leaves every storage item
\* unchanged and deposits no event; an event is deposited only by a call that
\* returns Ok.
C3_ErrorsChangeNothing ==
    [][/\ (result' \in Errors
              => (UNCHANGED <<assets_storage, nfts_storage>> /\ event' = NoEvent))
       /\ (event' # NoEvent => result' = "Ok")]_vars

\* C3 witness: a mint by a non-owner was refused on a ledger that holds units.
C3_Witness ==
    /\ call = "mint" /\ result = "NoPermission" /\ event = NoEvent
    /\ \E i \in AssetId : Asset[i].is_some /\ Asset[i].val.supply > 0

\* C4: (assets) on an existing asset, burn and transfer (to another account) of
\* more than the caller's balance return Ok, move exactly the caller's prior
\* balance and leave the caller's balance at 0.
C4_ClampToBalance ==
    [][/\ \A o \in AccountId, i \in AssetId, a \in U128 :
             (burn(o, i, a) /\ Asset[i].is_some /\ a > Account[i][o])
                 => /\ result' = "Ok"
                    /\ Asset'[i].val.supply = Asset[i].val.supply - Account[i][o]
                    /\ Account'[i][o] = 0
       /\ \A o \in AccountId, i \in AssetId, a \in U128, t \in AccountId :
             (transfer(o, i, a, t) /\ t # o /\ Asset[i].is_some /\ a > Account[i][o])
                 => /\ result' = "Ok"
                    /\ Account'[i][t] = Account[i][t] + Account[i][o]
                    /\ Account'[i][o] = 0]_vars

\* C5: (assets) mint fails with Unknown on an absent asset and with NoPermission
\* for a caller who is not the owner; the supply of an asset increases only in a
\* successful mint called by the asset's owner.
C5_OnlyOwnerMintRaisesSupply ==
    [][/\ \A o \in AccountId, i \in AssetId, a \in U128, t \in AccountId :
             mint(o, i, a, t)
                 => /\ (~Asset[i].is_some => result' = "Unknown")
                    /\ ((Asset[i].is_some /\ Asset[i].val.owner # o)
                            => result' = "NoPermission")
       /\ \A i \in AssetId :
             (Asset[i].is_some /\ Asset'[i].is_some
                  /\ Asset'[i].val.supply > Asset[i].val.supply)
                 => /\ call' = "mint" /\ result' = "Ok"
                    /\ \E a \in U128, t \in AccountId : mint(Asset[i].val.owner, i, a, t)]_vars

\* C6: (assets) a successful mint sets supply' = min(supply + amount, u128 max),
\* credits `to` by exactly supply' - supply with a saturating addition, never
\* aborts, and deposits Minted carrying supply'.
C6_MintSaturates ==
    [][\A o \in AccountId, i \in AssetId, a \in U128, t \in AccountId :
          (mint(o, i, a, t) /\ ensure_is_owner(i, o) = "Ok")
              => LET new_supply == Min(Asset[i].val.supply + a, MaxU128)
                 IN /\ result' = "Ok"
                    /\ Asset'[i].val.supply = new_supply
                    /\ Account'[i][t] =
                           saturating_add(Account[i][t], new_supply - Asset[i].val.supply)
                    /\ event' = Minted(i, t, new_supply)]_vars

\* C7: (assets) successive successful create calls are assigned strictly
\* increasing AssetIds and no AssetId is assigned to two create calls.
C7_FreshIncreasingIds ==
    [][\A o \in AccountId :
          create(o) => \A j \in AssetId : Asset[j].is_some => j < event'.asset_id]_vars

\* C8: (both pallets) the details of an AssetId are never deleted or replaced by
\* a fresh record, and their owner never changes.
C8_OwnerNeverChanges ==
    [][\A i \in AssetId :
          /\ Asset[i].is_some
                 => (Asset'[i].is_some /\ Asset'[i].val.owner = Asset[i].val.owner
                         /\ ~(call' = "create" /\ event'.asset_id = i))
          /\ UniqueAsset[i].is_some
                 => (UniqueAsset'[i].is_some
                         /\ UniqueAsset'[i].val.owner = UniqueAsset[i].val.owner
                         /\ ~(call' = "unique_mint" /\ result' = "Ok"
                                  /\ event'.asset_id = i))]_vars

\* C9: (both pallets) the Transferred event of a successful transfer carries the
\* effective amount min(amount, sender's prior balance).
C9_TransferredCarriesEffective ==
    [][/\ \A o \in AccountId, i \in AssetId, a \in U128, t \in AccountId :
             (transfer(o, i, a, t) /\ result' = "Ok")
                 => (event'.kind = "Transferred" /\ event'.amount = Min(a, Account[i][o]))
       /\ \A o \in AccountId, i \in AssetId, a \in U128, t \in AccountId :
             (unique_transfer(o, i, a, t) /\ result' = "Ok")
                 => (event'.kind = "Transferred"
                         /\ event'.amount = Min(a, UniqueAccount[i][o]))]_vars

\* C10: (nfts) for every UniqueAssetId that has details, the stored supply equals
\* the sum of all Account balances recorded for that id.
C10_UniqueConservation ==
    \A i \in AssetId :
        UniqueAsset[i].is_some
            => UniqueAsset[i].val.supply = Sum(UniqueAccount[i], AccountId)

\* C11: (nfts) burn and transfer fail with Unknown on an absent id, with NotOwned
\* when the caller's balance is 0, and otherwise succeed and move
\* min(amount, caller's balance): off the caller's balance, and off the supply
\* (burn) or onto the receiver's balance (transfer).
C11_UniqueBurnTransfer ==
    [][/\ \A o \in AccountId, i \in AssetId, a \in U128 :
             unique_burn(o, i, a)
                 => LET bal == UniqueAccount[i][o]
                        eff == Min(a, bal)
                    IN /\ (~UniqueAsset[i].is_some => result' = "Unknown")
                       /\ ((UniqueAsset[i].is_some /\ bal = 0) => result' = "NotOwned")
                       /\ ((UniqueAsset[i].is_some /\ bal > 0)
                              => /\ result' = "Ok"
                                 /\ UniqueAccount'[i][o] = bal - eff
                                 /\ UniqueAsset'[i].val.supply = UniqueAsset[i].val.supply - eff)
       /\ \A o \in AccountId, i \in AssetId, a \in U128, t \in AccountId :
             unique_transfer(o, i, a, t)
                 => LET bal == UniqueAccount[i][o]
                        eff == Min(a, bal)
                        debited == [UniqueAccount[i] EXCEPT ![o] = bal - eff]
                    IN /\ (~UniqueAsset[i].is_some => result' = "Unknown")
                       /\ ((UniqueAsset[i].is_some /\ bal = 0) => result' = "NotOwned")
                       /\ ((UniqueAsset[i].is_some /\ bal > 0)
                              => /\ result' = "Ok"
                                 /\ UniqueAccount'[i] = [debited EXCEPT ![t] = debited[t] + eff])]_vars

\* C12: (nfts) mint with supply 0 fails with NoSupply and consumes no id; with
\* supply > 0 it succeeds, takes the current Nonce as id, stores details owned by
\* the creator with that supply, leaves the creator's balance of the new id at
\* exactly that supply and every other balance of it at 0, and deposits Created.
C12_UniqueMint ==
    [][\A o \in AccountId, m \in Names, s \in U128 :
          unique_mint(o, m, s)
              => /\ (s = 0 => (result' = "NoSupply" /\ UniqueNonce' = UniqueNonce))
                 /\ (s > 0
                        => /\ result' = "Ok"
                           /\ UniqueAsset'[UniqueNonce].is_some
                           /\ UniqueAsset'[UniqueNonce].val.owner = o
                           /\ UniqueAsset'[UniqueNonce].val.supply = s
                           /\ UniqueAccount'[UniqueNonce] =
                                  [a \in AccountId |-> IF a = o THEN s ELSE 0]
                           /\ event' = UniqueCreated(o, UniqueNonce))]_vars

\* C13: (both pallets) the Nonce is changed only by a successful creation, which
\* sets it to min(Nonce + 1, maximum id) and never fails at the maximum; the
\* Nonce never decreases.
C13_NonceSaturates ==
    [][/\ (Nonce' # Nonce => (call' = "create" /\ result' = "Ok"))
       /\ (UniqueNonce' # UniqueNonce => (call' = "unique_mint" /\ result' = "Ok"))
       /\ \A o \in AccountId :
             create(o) => (result' = "Ok" /\ Nonce' = Min(Nonce + 1, MaxAssetId))
       /\ \A o \in AccountId, m \in Names, s \in U128 :
             (unique_mint(o, m, s) /\ s > 0)
                 => (result' = "Ok" /\ UniqueNonce' = Min(UniqueNonce + 1, MaxAssetId))
       /\ Nonce' >= Nonce
       /\ UniqueNonce' >= UniqueNonce]_vars

\* C17: (assets) every balance of an asset is at most the asset's supply, so the
\* plain subtraction in burn and the plain addition in mint never leave the
\* range of u128.
C17_BalanceAtMostSupply ==
    /\ \A i \in AssetId, a \in AccountId :
          Asset[i].is_some => Account[i][a] <= Asset[i].val.supply
    /\ pallet = "assets" => result # "Panic"

\* C19: (nfts) once an id has details, no call raises its supply or the sum of
\* its balances; the supply changes only in a successful burn, which lowers it
\* by the effective burned amount.
C19_UniqueSupplyNeverGrows ==
    [][\A i \in AssetId :
          UniqueAsset[i].is_some
              => /\ UniqueAsset'[i].is_some
                 /\ UniqueAsset'[i].val.supply <= UniqueAsset[i].val.supply
                 /\ Sum(UniqueAccount'[i], AccountId) <= Sum(UniqueAccount[i], AccountId)
                 /\ UniqueAsset'[i].val.supply # UniqueAsset[i].val.supply
                        => /\ call' = "burn" /\ result' = "Ok"
                           /\ \E o \in AccountId, a \in U128 :
                                 /\ unique_burn(o, i, a)
                                 /\ UniqueAsset'[i].val.supply =
                                        UniqueAsset[i].val.supply - Min(a, UniqueAccount[i][o])]_vars

\* C20: (nfts) a successful transfer whose receiver is the caller leaves the
\* caller's balance and the supply as they were, for every amount.
C20_UniqueSelfTransferNoEffect ==
    [][\A o \in AccountId, i \in AssetId, a \in U128 :
          (unique_transfer(o, i, a, o) /\ result' = "Ok")
              => (UniqueAccount'[i][o] = UniqueAccount[i][o]
                      /\ UniqueAsset'[i] = UniqueAsset[i])]_vars

\* C20 witness: a holder has transferred a positive amount to itself.
C20_Witness ==
    /\ pallet = "nfts" /\ call = "transfer" /\ result = "Ok"
    /\ event.kind = "Transferred" /\ event.from = event.to /\ event.amount > 0
    /\ UniqueAccount[event.asset_id][event.from] > 0

\* C14: (assets) a set_metadata call that repeats the successful call before it
\* (same caller, asset_id, name and symbol) leaves the ledger as the first call
\* left it.
C14_SetMetadataIdempotent ==
    [][\A i \in AssetId, n \in MetaNames, s \in MetaSymbols :
          (/\ call = "set_metadata" /\ result = "Ok" /\ event = MetadataSet(i, n, s)
           /\ set_metadata(Asset[i].val.owner, i, n, s))
              => (result' = "Ok" /\ UNCHANGED <<assets_storage, nfts_storage>>)]_vars

\* C14 witness: the metadata just set by the owner is stored, on an asset that
\* has a supply.
C14_Witness ==
    /\ call = "set_metadata" /\ result = "Ok" /\ event.kind = "MetadataSet"
    /\ Metadata[event.asset_id] = Some([name |-> event.name, symbol |-> event.symbol])
    /\ Asset[event.asset_id].val.supply > 0

\* C15: (assets) set_metadata fails with Unknown on an absent asset and with
\* NoPermission for a caller who is not the owner; on success it replaces the
\* metadata of that asset with the given name and symbol and changes nothing
\* else; an asset's metadata changes only in a successful set_metadata by the
\* asset's owner.
C15_SetMetadataFrame ==
    [][/\ \A o \in AccountId, i \in AssetId, n \in MetaNames, s \in MetaSymbols :
             set_metadata(o, i, n, s)
                 => /\ (~Asset[i].is_some => result' = "Unknown")
                    /\ ((Asset[i].is_some /\ Asset[i].val.owner # o)
                            => result' = "NoPermission")
                    /\ ((Asset[i].is_some /\ Asset[i].val.owner = o)
                            => /\ result' = "Ok"
                               /\ Metadata' = [Metadata EXCEPT
                                                  ![i] = Some([name |-> n, symbol |-> s])]
                               /\ UNCHANGED <<Asset, Account, Nonce, nfts_storage>>)
       /\ \A i \in AssetId :
             Metadata'[i] # Metadata[i]
                 => /\ call' = "set_metadata" /\ result' = "Ok" /\ Asset[i].is_some
                    /\ \E n \in MetaNames, s \in MetaSymbols :
                          set_metadata(Asset[i].val.owner, i, n, s)]_vars

\* C15 witness: the owner has replaced an asset's metadata by another name.
C15_Witness ==
    /\ call = "set_metadata" /\ result = "Ok" /\ event.kind = "MetadataSet"
    /\ event.name = "n2" /\ event.symbol = "s2"
    /\ Metadata[event.asset_id] = Some([name |-> "n2", symbol |-> "s2"])
    /\ \E j \in AssetId \ {event.asset_id} :
          Metadata[j] = Some([name |-> "n1", symbol |-> "s1"])
    /\ Asset[event.asset_id].val.supply > 0

\* The ledger of the C16 scenario: asset 0 owned by A with the given supply and
\* balances, no other asset, no metadata.  The scenario's amounts 1, 10, 100,
\* 150, 1000 are scaled to the model's range keeping their order against the
\* balances: mint 1, transfer 2 (more than A holds), burn 1 (A holds nothing),
\* burn 2 (more than B holds).
C16_Ledger(supply, balA, balB) ==
    /\ Asset = [i \in AssetId |-> IF i = 0 THEN Some([owner |-> "A", supply |-> supply])
                                  ELSE None]
    /\ Account = [i \in AssetId |-> [a \in AccountId |->
                     IF i = 0 THEN (IF a = "A" THEN balA ELSE balB) ELSE 0]]
    /\ Metadata = [i \in AssetId |-> None]
    /\ Nonce = 1

\* C16: (assets) from the empty ledger, with distinct accounts A and B: create
\* by A gives an asset owned by A with supply 0; A minting to itself gives that
\* supply and balance; a mint by B fails with NoPermission; A transferring more
\* than it holds to B moves exactly what it holds and keeps the supply; a burn by
\* A, who now holds nothing, burns nothing; a burn by B of more than it holds
\* takes B's balance and the supply to 0.
C16_Scenario ==
    [][/\ (/\ Asset = [i \in AssetId |-> None] /\ Nonce = 0
           /\ Account = [i \in AssetId |-> [a \in AccountId |-> 0]]
           /\ Metadata = [i \in AssetId |-> None]
           /\ create("A"))
              => (result' = "Ok" /\ event' = Created("A", 0) /\ C16_Ledger(0, 0, 0)')
       /\ (C16_Ledger(0, 0, 0) /\ mint("A", 0, 1, "A"))
              => (result' = "Ok" /\ event' = Minted(0, "A", 1) /\ C16_Ledger(1, 1, 0)')
       /\ (C16_Ledger(1, 1, 0) /\ mint("B", 0, 1, "B"))
              => (result' = "NoPermission" /\ C16_Ledger(1, 1, 0)')
       /\ (C16_Ledger(1, 1, 0) /\ transfer("A", 0, 2, "B"))
              => (result' = "Ok" /\ event' = Transferred(0, "A", "B", 1)
                     /\ C16_Ledger(1, 0, 1)')
       /\ (C16_Ledger(1, 0, 1) /\ burn("A", 0, 1))
              => (result' = "Ok" /\ event' = Burned(0, "A", 1) /\ C16_Ledger(1, 0, 1)')
       /\ (C16_Ledger(1, 0, 1) /\ burn("B", 0, 2))
              => (result' = "Ok" /\ event' = Burned(0, "B", 0) /\ C16_Ledger(0, 0, 0)')
      ]_vars

\* C16 witness: the scenario before its last step: A's asset has supply 1, all
\* of it moved to B, and A's burn has just left it so.
C16_Witness ==
    /\ pallet = "assets" /\ call = "burn" /\ result = "Ok"
    /\ event = Burned(0, "A", 1)
    /\ C16_Ledger(1, 0, 1)

\* C18 witness: a successful burn in the assets pallet while another asset
\* exists that has a supply and metadata.
C18_Witness ==
    /\ pallet = "assets" /\ call = "burn" /\ result = "Ok" /\ event.kind = "Burned"
    /\ Asset[event.asset_id].val.supply < MaxU128
    /\ \E y \in AssetId \ {event.asset_id} :
          /\ Asset[y].is_some /\ Asset[y].val.supply > 0
          /\ Metadata[y].is_some

\* The entries of asset id x in a ledger.
C18_Entries(st, x) ==
    [details |-> st.Asset[x], balances |-> st.Account[x],
     metadata |-> IF "Metadata" \in DOMAIN st THEN st.Metadata[x] ELSE None]

\* What a call c on an existing asset may change within that asset: never the
\* owner (nor, in the nfts pallet, the creation-time metadata); the supply in
\* mint and burn only; the balance of the account the call names (mint: the
\* recipient, burn: the caller, transfer: sender and receiver); the metadata
\* in set_metadata only.
C18_Within(c, old, new) ==
    /\ new.details.is_some
    /\ [new.details.val EXCEPT !.supply = 0] = [old.details.val EXCEPT !.supply = 0]
    /\ (c.op \notin {"mint", "burn", "unique_burn"}
            => new.details.val.supply = old.details.val.supply)
    /\ \A a \in AccountId :
          new.balances[a] # old.balances[a]
              => \/ c.op \in {"mint", "transfer", "unique_transfer"} /\ a = c.to
                 \/ c.op \in {"burn", "unique_burn", "transfer", "unique_transfer"}
                        /\ a = c.origin
    /\ (c.op # "set_metadata" => new.metadata = old.metadata)

\* What a step that is the call c on an existing asset must leave.
C18_Framed(c) ==
    /\ \A y \in AssetId \ {c.asset_id} : C18_Entries(Ledger', y) = C18_Entries(Ledger, y)
    /\ Ledger'.Nonce = Ledger.Nonce
    /\ C18_Within(c, C18_Entries(Ledger, c.asset_id), C18_Entries(Ledger', c.asset_id))
    /\ \E checks \in BOOLEAN : Ledger' = after(Ledger, checks, c)

C18_FrameStep ==
    /\ call' = "set_metadata"
          => \A o \in AccountId, x \in AssetId, n \in Names, s \in Symbols :
                (set_metadata(o, x, n, s) /\ Asset[x].is_some)
                    => C18_Framed([op |-> "set_metadata", origin |-> o, asset_id |-> x,
                                   name |-> n, symbol |-> s])
    /\ call' = "mint"
          => \A o \in AccountId, x \in AssetId, a \in EdgeAmounts, t \in AccountId :
                (mint(o, x, a, t) /\ Asset[x].is_some)
                    => C18_Framed([op |-> "mint", origin |-> o, asset_id |-> x,
                                   amount |-> a, to |-> t])
    /\ call' = "transfer"
          => \A o \in AccountId, x \in AssetId, a \in EdgeAmounts, t \in AccountId :
                /\ (transfer(o, x, a, t) /\ Asset[x].is_some)
                      => C18_Framed([op |-> "transfer", origin |-> o, asset_id |-> x,
                                     amount |-> a, to |-> t])
                /\ (unique_transfer(o, x, a, t) /\ UniqueAsset[x].is_some)
                      => C18_Framed([op |-> "unique_transfer", origin |-> o,
                                     asset_id |-> x, amount |-> a, to |-> t])
    /\ call' = "burn"
          => \A o \in AccountId, x \in AssetId, a \in EdgeAmounts :
                /\ (burn(o, x, a) /\ Asset[x].is_some)
                      => C18_Framed([op |-> "burn", origin |-> o, asset_id |-> x,
                                     amount |-> a])
                /\ (unique_burn(o, x, a) /\ UniqueAsset[x].is_some)
                      => C18_Framed([op |-> "unique_burn", origin |-> o, asset_id |-> x,
                                     amount |-> a])

\* Every ledger that is reached is also reached by a failed mint, which leaves
\* it as it is (assets: a caller who is not the owner, or no such asset; nfts:
\* a supply of 0): the properties of the ledger alone are checked in the states
\* after a failed mint.
C18_AfterFailedMint == call \in {"mint", "unique_mint"} /\ result # "Ok"

C18_FailedMintKeeps == ENABLED (NextFrame /\ C18_AfterFailedMint' /\ Ledger' = Ledger)

\* Every outcome `after` gives is an outcome of the call.
C18_Outcomes ==
    C18_AfterFailedMint
        => \A x \in AssetId : \A c \in CallsOn(pallet, x) : \A checks \in BOOLEAN :
              ENABLED (dispatch(c) /\ Ledger' = after(Ledger, checks, c))

C18_Commute ==
    C18_AfterFailedMint
        => \A x \in AssetId, y \in AssetId :
              (x < y /\ Ledger.Asset[x].is_some /\ Ledger.Asset[y].is_some)
                  => \A checks \in BOOLEAN : \A c \in CallsOn(pallet, x) :
                        LET left == after(Ledger, checks, c)
                        IN \A d \in CallsOn(pallet, y) :
                              after(left, checks, d)
                                  = after(after(Ledger, checks, d), checks, c)

\* C18: (both ledgers) a mint, burn, transfer or set_metadata call naming an
\* existing asset id X leaves the details, balances and metadata of every other
\* asset id and the Nonce unchanged, and within X changes only the entries the
\* operation names; two such calls on different existing asset ids leave the
\* same ledger in either order.
\* Checked with the amounts 0 and the largest one in the steps, and with
\* every amount in the pairs of calls.
C18_FrameAndCommute ==
    /\ [][C18_FrameStep]_vars
    /\ []C18_FailedMintKeeps
    /\ []C18_Outcomes
    /\ []C18_Commute

====
